---- MODULE Spec2Model ----
(* Model of jules-scratch/verification/verify_ui_ux.py: the linear capture  *)
(* script run(playwright) and the module-level "with sync_playwright()"     *)
(* block that calls it.  A program position is the source line of the       *)
(* statement about to execute.  Every Playwright call either returns or     *)
(* raises; page.locator() only builds a lazy locator and always returns.    *)
EXTENDS Integers, Sequences, FiniteSets, TLC

VARIABLES
    pc,          \* source line of the next statement; Exited once the process ended
    browser,     \* "none" before launch, "open" after launch, "closed" after browser.close()
    files,       \* output directory: file name -> number of the run that wrote it (0: older)
    exc,         \* line of the statement whose exception is propagating, 0 if none
    exitCode,    \* -1 while the process runs, then 0 (completed) or 1 (uncaught exception)
    run,         \* number of the current invocation of the script
    log,         \* statements started in this run, in order, each with its outcome
    written,     \* file names written by this run, in order
    dirAtStart,  \* file names in the output directory when this run started
    prevExit     \* exit code of the previous invocation, -1 if there was none

vars == <<pc, browser, files, exc, exitCode, run, log, written, dirAtStart, prevExit>>

\* ---------------------------------------------------------------- bounds
MaxRuns == 2

\* ---------------------------------------------------------------- program text
Exited == 0
FinallyLine == 37
WithExitLine == 40

Stmts == <<4, 5, 6, 10, 11, 12, 15, 16, 19, 20, 23, 24, 25, 26, 29, 30, 31, 32, 33, 34>>

StmtLines == {Stmts[i] : i \in 1..Len(Stmts)}

TryLines == {l \in StmtLines : l >= 10 /\ l <= 34}

Op(line) ==
    CASE line = 4 -> "launch"
      [] line = 5 -> "new_context"
      [] line = 6 -> "new_page"
      [] line = 10 -> "goto"
      [] line \in {11, 24, 30, 32} -> "wait_for_selector"
      [] line \in {12, 16, 20, 26, 34} -> "screenshot"
      [] line \in {15, 19, 25, 33} -> "locator"
      [] line \in {23, 29, 31} -> "click"
      [] OTHER -> "none"

ShotLines == {l \in StmtLines : Op(l) = "screenshot"}

PathSameName(line) ==
    CASE line = 12 -> "01_main_page.png"
      [] line = 16 -> "02_header.png"
      [] line = 20 -> "03_image_grid.png"
      [] line = 26 -> "04_upload_form.png"
      [] OTHER -> "04_upload_form.png"

PathPerRun(line) ==
    IF run = 1
    THEN CASE line = 12 -> "01_main_page.png"
           [] line = 16 -> "02_header.png"
           [] line = 20 -> "03_image_grid.png"
           [] line = 26 -> "04_upload_form.png"
           [] OTHER -> "05_image_modal.png"
    ELSE CASE line = 12 -> "01_main_page_again.png"
           [] line = 16 -> "02_header_again.png"
           [] line = 20 -> "03_image_grid_again.png"
           [] line = 26 -> "04_upload_form_again.png"
           [] OTHER -> "05_image_modal_again.png"

Path(line) ==
    CASE line = 12 -> "01_main_page.png"
      [] line = 16 -> "02_header.png"
      [] line = 20 -> "03_image_grid.png"
      [] line = 26 -> "04_upload_form.png"
      [] OTHER -> "05_image_modal.png"

\* the statement after `line` in straight-line order; the finally block follows line 34
Succ(line) ==
    IF line = 34 THEN FinallyLine
    ELSE LET i == CHOOSE j \in 1..Len(Stmts) : Stmts[j] = line IN Stmts[i + 1]

HandlerSwallow(line) == Succ(line)

\* where control goes when the statement at `line` raises: into the finally
\* block when the statement is inside try, else straight out of run()
Handler(line) == IF line \in TryLines THEN FinallyLine ELSE WithExitLine

ExitCodeAlwaysZero(e) == 0

\* an exception leaving the with block is uncaught and ends the process with 1
ExitCode(e) == IF e = 0 THEN 0 ELSE 1

\* ---------------------------------------------------------------- initial state
PriorNames == {"01_main_page.png", "05_image_modal.png", "notes.txt"}

Init ==
    /\ pc = 4
    /\ browser = "none"
    /\ \E S \in SUBSET PriorNames : files = [n \in S |-> 0]
    /\ exc = 0
    /\ exitCode = -1
    /\ run = 1
    /\ log = <<>>
    /\ written = <<>>
    /\ dirAtStart = DOMAIN files
    /\ prevExit = -1

\* ---------------------------------------------------------------- statements
Returns ==
    /\ pc' = Succ(pc)
    /\ log' = Append(log, [line |-> pc, ok |-> TRUE])
    /\ exc' = exc

Raises ==
    /\ pc' = Handler(pc)
    /\ log' = Append(log, [line |-> pc, ok |-> FALSE])
    /\ exc' = pc

Launch ==
    /\ Op(pc) = "launch"
    /\ \/ Returns /\ browser' = "open"
       \/ Raises /\ browser' = browser
    /\ UNCHANGED <<files, exitCode, run, written, dirAtStart, prevExit>>

NewContext ==
    /\ Op(pc) = "new_context"
    /\ Returns \/ Raises
    /\ UNCHANGED <<browser, files, exitCode, run, written, dirAtStart, prevExit>>

NewPage ==
    /\ Op(pc) = "new_page"
    /\ Returns \/ Raises
    /\ UNCHANGED <<browser, files, exitCode, run, written, dirAtStart, prevExit>>

Goto ==
    /\ Op(pc) = "goto"
    /\ Returns \/ Raises
    /\ UNCHANGED <<browser, files, exitCode, run, written, dirAtStart, prevExit>>

WaitForSelector ==
    /\ Op(pc) = "wait_for_selector"
    /\ Returns \/ Raises
    /\ UNCHANGED <<browser, files, exitCode, run, written, dirAtStart, prevExit>>

Click ==
    /\ Op(pc) = "click"
    /\ Returns \/ Raises
    /\ UNCHANGED <<browser, files, exitCode, run, written, dirAtStart, prevExit>>

Locator ==
    /\ Op(pc) = "locator"
    /\ Returns
    /\ UNCHANGED <<browser, files, exitCode, run, written, dirAtStart, prevExit>>

Screenshot ==
    /\ Op(pc) = "screenshot"
    /\ \/ /\ Returns
          /\ files' = [n \in DOMAIN files \cup {Path(pc)} |->
                          IF n = Path(pc) THEN run ELSE files[n]]
          /\ written' = Append(written, Path(pc))
       \/ /\ Raises
          /\ UNCHANGED <<files, written>>
    /\ UNCHANGED <<browser, exitCode, run, dirAtStart, prevExit>>

FinallyNoClose ==
    /\ pc = FinallyLine
    /\ pc' = WithExitLine
    /\ UNCHANGED <<browser, files, exc, exitCode, run, log, written, dirAtStart, prevExit>>

\* finally: browser.close(), then the pending exception (if any) is re-raised
Finally ==
    /\ pc = FinallyLine
    /\ browser' = "closed"
    /\ pc' = WithExitLine
    /\ UNCHANGED <<files, exc, exitCode, run, log, written, dirAtStart, prevExit>>

\* run() has returned or raised; the with block is left and the process ends
WithExit ==
    /\ pc = WithExitLine
    /\ exitCode' = ExitCode(exc)
    /\ pc' = Exited
    /\ UNCHANGED <<browser, files, exc, run, log, written, dirAtStart, prevExit>>

\* the script is invoked again; the output directory is what the last run left
StartRun ==
    /\ pc = Exited
    /\ run < MaxRuns
    /\ run' = run + 1
    /\ pc' = 4
    /\ browser' = "none"
    /\ exc' = 0
    /\ exitCode' = -1
    /\ log' = <<>>
    /\ written' = <<>>
    /\ dirAtStart' = DOMAIN files
    /\ prevExit' = exitCode
    /\ UNCHANGED files

Step ==
    \/ Launch
    \/ NewContext
    \/ NewPage
    \/ Goto
    \/ WaitForSelector
    \/ Click
    \/ Locator
    \/ Screenshot
    \/ Finally
    \/ WithExit

Next ==
    \/ Launch
    \/ NewContext
    \/ NewPage
    \/ Goto
    \/ WaitForSelector
    \/ Click
    \/ Locator
    \/ Screenshot
    \/ Finally
    \/ WithExit
    \/ StartRun

Spec == Init /\ [][Next]_vars

\* every call blocks until it returns or raises, so a run that can take a step does
FairSpec == Init /\ [][Next]_vars /\ WF_vars(Step)

\* ---------------------------------------------------------------- helpers for the properties
Started(l) == \E i \in 1..Len(log) : log[i].line = l

Ok(l) == \E i \in 1..Len(log) : log[i].line = l /\ log[i].ok

Failed(l) == \E i \in 1..Len(log) : log[i].line = l /\ ~log[i].ok

Wrote(name) == \E i \in 1..Len(written) : written[i] = name

CaptureNames ==
    {"01_main_page.png", "02_header.png", "03_image_grid.png",
     "04_upload_form.png", "05_image_modal.png"}

CaptureOrder ==
    <<"01_main_page.png", "02_header.png", "03_image_grid.png",
      "04_upload_form.png", "05_image_modal.png">>

TypeOK ==
    /\ pc \in StmtLines \cup {FinallyLine, WithExitLine, Exited}
    /\ browser \in {"none", "open", "closed"}
    /\ exc \in StmtLines \cup {0}
    /\ exitCode \in {-1, 0, 1}
    /\ run \in 1..MaxRuns

AllOk == \A l \in StmtLines : Ok(l)

\* the wait or navigation call that most closely precedes the capture at line c
PrecedingWait(c) ==
    CASE c \in {12, 16, 20} -> 11
      [] c = 26 -> 24
      [] OTHER -> 32

WrittenThisRun == {n \in DOMAIN files : files[n] = run}

\* ---------------------------------------------------------------- properties

\* C1: once the interaction sequence has been entered (line 10 reached), the
\* run always goes on to execute browser.close(), whichever step fails or
\* when none does, and no run that entered the sequence ends with the
\* browser not closed.
C1_BrowserClosedOnEveryExit ==
    /\ [](pc = Exited /\ Started(10) => browser = "closed")
    /\ ((pc = 10) ~> (browser = "closed"))

C1_Witness == pc = Exited /\ Failed(32) /\ browser = "closed"

\* C2 (as stated): after a run in which every step succeeded, started on an
\* empty output directory, exactly six image files exist.
C2_SixFilesAfterSuccess ==
    (pc = Exited /\ AllOk /\ dirAtStart = {}) =>
        (Cardinality(DOMAIN files) = 6 /\ CaptureNames \subseteq DOMAIN files)

\* C2 (amended): after a run in which every step succeeded, started on an
\* empty output directory, exactly the five files 01_main_page.png ..
\* 05_image_modal.png exist.
C2_FiveFilesAfterSuccess ==
    (pc = Exited /\ AllOk /\ dirAtStart = {}) =>
        (DOMAIN files = CaptureNames /\ Cardinality(DOMAIN files) = 5)

C2_Witness == pc = Exited /\ AllOk /\ dirAtStart = {} /\ exitCode = 0

\* C3: when the wait for "Visuals" (line 11) fails, the run ends having
\* written no image file and with the browser closed.
C3_VisualsTimeoutWritesNothing ==
    (pc = Exited /\ Failed(11)) =>
        /\ written = <<>>
        /\ WrittenThisRun = {}
        /\ DOMAIN files = dirAtStart
        /\ browser = "closed"
        /\ exitCode = 1

C3_Witness == pc = Exited /\ Failed(11) /\ browser = "closed"

\* C4: when the click on "Upload" (line 23) fails after all earlier steps
\* succeeded, a run started on an empty directory leaves exactly the
\* main-page, header and image-grid files; the upload-form and modal files
\* do not exist.
C4_UploadAbsentLeavesFirstThree ==
    (pc = Exited /\ Failed(23) /\ dirAtStart = {}) =>
        /\ DOMAIN files = {"01_main_page.png", "02_header.png", "03_image_grid.png"}
        /\ "04_upload_form.png" \notin DOMAIN files
        /\ "05_image_modal.png" \notin DOMAIN files

C4_Witness == pc = Exited /\ Failed(23) /\ dirAtStart = {} /\ Len(written) = 3

\* C5 (as stated): at the end of a run each capture file was written by the
\* run if and only if the wait/navigation step preceding it succeeded.
C5_WrittenIffPrecedingStepOk ==
    pc = Exited => \A c \in ShotLines : Wrote(Path(c)) <=> Ok(PrecedingWait(c))

\* C5 (amended): a capture file is written by the run if and only if its
\* preceding wait/navigation step succeeded and the capture call itself was
\* reached and succeeded; in particular no file is written whose preceding
\* wait failed.
C5_WrittenIffPrecedingAndCaptureOk ==
    \A c \in ShotLines :
        /\ Wrote(Path(c)) <=> (Ok(PrecedingWait(c)) /\ Ok(c))
        /\ Failed(PrecedingWait(c)) => ~Wrote(Path(c))

C5_Witness ==
    /\ pc = Exited
    /\ Ok(11) /\ Failed(12) /\ ~Wrote("01_main_page.png")

\* C6: statements run in source order, each at most once, each only after
\* all earlier ones succeeded; nothing runs after the first failure; the
\* files a run wrote are the captures before the first failure, a prefix of
\* 01..05 in order.
C6_FailStopInOrder ==
    /\ Len(log) <= Len(Stmts)
    /\ \A i \in 1..Len(log) : log[i].line = Stmts[i]
    /\ \A i \in 1..Len(log) : i < Len(log) => log[i].ok
    /\ exc # 0 => (Len(log) > 0 /\ log[Len(log)].line = exc /\ ~log[Len(log)].ok)
    /\ Len(written) <= Len(CaptureOrder)
    /\ \A i \in 1..Len(written) : written[i] = CaptureOrder[i]
    /\ \A c \in ShotLines : Wrote(Path(c)) <=> Ok(c)
    /\ WrittenThisRun = {written[i] : i \in 1..Len(written)}

C6_Witness == pc = Exited /\ Failed(24) /\ Len(written) = 3 /\ Len(log) = 12

\* C7: when the initial page load (line 10) fails, the run stops there, no
\* image file is written, and the exception leaves run() uncaught so the
\* process ends with the failed outcome, not the completed one.
C7_GotoFailureAbortsNonZero ==
    (pc = Exited /\ Failed(10)) =>
        /\ log[Len(log)].line = 10
        /\ written = <<>>
        /\ WrittenThisRun = {}
        /\ exc = 10
        /\ exitCode = 1

C7_Witness == pc = Exited /\ Failed(10) /\ exitCode = 1

\* C8: when two invocations in succession both succeed fully, the second
\* leaves the same set of file names as the first left, and each of the five
\* capture files holds what the second run wrote.
C8_SecondSuccessfulRunOverwrites ==
    (pc = Exited /\ run >= 2 /\ prevExit = 0 /\ AllOk) =>
        /\ DOMAIN files = dirAtStart
        /\ CaptureNames \subseteq DOMAIN files
        /\ \A n \in CaptureNames : files[n] = run
        /\ \A n \in DOMAIN files \ CaptureNames : files[n] = 0

C8_Witness == pc = Exited /\ run = 2 /\ prevExit = 0 /\ AllOk /\ exitCode = 0

====
